---- MODULE Spec2Model ----
(***************************************************************************)
(* Model of the SEC filing fetchers: Form13DFetcher (form_13f.py) and      *)
(* Form13FFetcher (sec_13f_diff_method.py).                                *)
(*                                                                         *)
(* Python str values are TLA+ strings; the text operations of the code     *)
(* (split, strip, startswith, lower, `in`, re.search, <) are computed      *)
(* character by character.  An element tree is a record                    *)
(* [tag, text, kids]; a Python dict is a TLA+ function whose DOMAIN is the *)
(* set of keys that were set.                                              *)
(***************************************************************************)
EXTENDS Integers, Sequences, FiniteSets, TLC

VARIABLES
    pc,     \* position of the running call
    args,   \* arguments and external inputs (HTTP responses) of the call
    loc,    \* local variables of the call
    ret,    \* value returned to the caller
    net     \* the time.sleep and requests.get calls made so far, in order

vars == <<pc, args, loc, ret, net>>

None == [none |-> TRUE]

(***************************************************************************)
(* Python str operations                                                   *)
(***************************************************************************)
Char(s, i) == SubSeq(s, i, i)

\* code-point order of the characters that occur in the inputs
CodePoints == "\t\n\r !#$%&'()*+,-./0123456789:;<=>?@ABCDEFGHIJKLMNOPQRSTUVWXYZ[]^_abcdefghijklmnopqrstuvwxyz{|}~"

Ord(c) == CHOOSE i \in 1..Len(CodePoints) : Char(CodePoints, i) = c

UpperCase == "ABCDEFGHIJKLMNOPQRSTUVWXYZ"
LowerCase == "abcdefghijklmnopqrstuvwxyz"
Digits == {"0", "1", "2", "3", "4", "5", "6", "7", "8", "9"}
Whitespace == {" ", "\t", "\n", "\r"}

\* a < b for str: first differing character decides, a proper prefix is smaller
RECURSIVE StrLess(_, _)
StrLess(a, b) ==
    IF b = "" THEN FALSE
    ELSE IF a = "" THEN TRUE
    ELSE IF Head(a) = Head(b) THEN StrLess(Tail(a), Tail(b))
    ELSE Ord(Head(a)) < Ord(Head(b))

\* s.startswith(p)
StartsWith(s, p) == Len(s) >= Len(p) /\ SubSeq(s, 1, Len(p)) = p

\* sub at position i of s
OccursAt(s, sub, i) ==
    /\ i >= 1
    /\ i + Len(sub) - 1 <= Len(s)
    /\ SubSeq(s, i, i + Len(sub) - 1) = sub

\* sub in s
Contains(s, sub) == \E i \in 1..(Len(s) + 1) : OccursAt(s, sub, i)

LowerChar(c) ==
    IF \E i \in 1..Len(UpperCase) : Char(UpperCase, i) = c
    THEN Char(LowerCase, CHOOSE i \in 1..Len(UpperCase) : Char(UpperCase, i) = c)
    ELSE c

\* s.lower()
RECURSIVE Lower(_)
Lower(s) == IF s = "" THEN "" ELSE LowerChar(Head(s)) \o Lower(Tail(s))

RECURSIVE LStrip(_)
LStrip(s) == IF s # "" /\ Head(s) \in Whitespace THEN LStrip(Tail(s)) ELSE s

RECURSIVE RStrip(_)
RStrip(s) ==
    IF s # "" /\ Char(s, Len(s)) \in Whitespace
    THEN RStrip(SubSeq(s, 1, Len(s) - 1))
    ELSE s

\* s.strip()
Strip(s) == RStrip(LStrip(s))

\* s.split(sep) for a one-character sep: always at least one part
RECURSIVE Split(_, _)
Split(s, sep) ==
    IF \E i \in 1..Len(s) : Char(s, i) = sep
    THEN LET i == CHOOSE k \in 1..Len(s) :
                    /\ Char(s, k) = sep
                    /\ \A j \in 1..(k - 1) : Char(s, j) # sep
         IN  <<SubSeq(s, 1, i - 1)>> \o Split(SubSeq(s, i + 1, Len(s)), sep)
    ELSE <<s>>

\* sep.join(parts)
RECURSIVE Join(_, _)
Join(parts, sep) ==
    IF parts = <<>> THEN ""
    ELSE IF Len(parts) = 1 THEN parts[1]
    ELSE parts[1] \o sep \o Join(Tail(parts), sep)

\* xs[:n]
Take(xs, n) == SubSeq(xs, 1, IF n < Len(xs) THEN n ELSE Len(xs))

(***************************************************************************)
(* Form13DFetcher._parse_daily_index                                       *)
(***************************************************************************)
Forms13D == {"13D", "13D/A"}

AllDigits(s) == \A i \in 1..Len(s) : Char(s, i) \in Digits

\* the string s matches \d{10}-\d{2}-\d{6} from its first to its last character
AccessionShape(s) ==
    /\ Len(s) = 20
    /\ AllDigits(SubSeq(s, 1, 10))
    /\ Char(s, 11) = "-"
    /\ AllDigits(SubSeq(s, 12, 13))
    /\ Char(s, 14) = "-"
    /\ AllDigits(SubSeq(s, 15, 20))

\* re.search(r'/(\d{10}-\d{2}-\d{6})/', filename) matches with the first slash at i
AccMatchAt(filename, i) ==
    /\ i + 21 <= Len(filename)
    /\ Char(filename, i) = "/"
    /\ AccessionShape(SubSeq(filename, i + 1, i + 20))
    /\ Char(filename, i + 21) = "/"

\* acc_match.group(1) if acc_match else ''
AccessionOf(filename) ==
    IF \E i \in 1..Len(filename) : AccMatchAt(filename, i)
    THEN LET i == CHOOSE k \in 1..Len(filename) :
                    /\ AccMatchAt(filename, k)
                    /\ \A j \in 1..(k - 1) : ~AccMatchAt(filename, j)
         IN  SubSeq(filename, i + 1, i + 20)
    ELSE ""

\* the dict built for one data row of the index
FilingInfo(parts, date) ==
    [form             |-> Strip(parts[1]),
     filing_date      |-> date,
     company_name     |-> Strip(parts[2]),
     cik              |-> Strip(parts[3]),
     accession_number |-> AccessionOf(Strip(parts[5])),
     filename         |-> Strip(parts[5]),
     filer_type       |-> "Unknown"]

ParseLineNoHeaderSkip(st, line, date) ==
    LET parts == Split(line, "|")
    IN  IF Strip(line) = "" THEN st
        ELSE IF Len(parts) >= 5 /\ Strip(parts[1]) \in Forms13D
        THEN [st EXCEPT !.filings = Append(@, FilingInfo(parts, date))]
        ELSE st

ParseLinePrefixForm(st, line, date) ==
    LET parts == Split(line, "|")
    IN  IF StartsWith(line, "Form Type") THEN [st EXCEPT !.start_parsing = TRUE]
        ELSE IF ~st.start_parsing \/ Strip(line) = "" THEN st
        ELSE IF Len(parts) >= 5 /\ StartsWith(parts[1], "13D")
        THEN [st EXCEPT !.filings = Append(@, FilingInfo(parts, date))]
        ELSE st

\* the body of the for loop over lines: st = [start_parsing, filings]
ParseLine(st, line, date) ==
    LET parts == Split(line, "|")
    IN  IF StartsWith(line, "Form Type") THEN [st EXCEPT !.start_parsing = TRUE]
        ELSE IF ~st.start_parsing \/ Strip(line) = "" THEN st
        ELSE IF Len(parts) >= 5 /\ Strip(parts[1]) \in Forms13D
        THEN [st EXCEPT !.filings = Append(@, FilingInfo(parts, date))]
        ELSE st

RECURSIVE ParseLines(_, _, _)
ParseLines(st, lines, date) ==
    IF lines = <<>> THEN st
    ELSE ParseLines(ParseLine(st, Head(lines), date), Tail(lines), date)

_parse_daily_index(index_content, date) ==
    ParseLines([start_parsing |-> FALSE, filings |-> <<>>],
               Split(index_content, "\n"), date).filings

(***************************************************************************)
(* Inputs of the daily index parser                                        *)
(***************************************************************************)
MaxLines == 4

HeaderLine == "Form Type|Company Name|CIK|Date Filed|File Name"

IndexLines ==
    { HeaderLine,
      "",
      "13D|Vanguard Group Inc|102909|20240105|edgar/data/102909/0000102909-24-000011/d.txt",
      " 13D/A |Smith John Individual| 77 |20240105|edgar/data/77/0000000077-24-000002.txt\r",
      "13D|Acme Private Equity|88|20240105|edgar/data/88/00000000881-24-000003/d.txt|x",
      "10-K|Foo Corp|5|20240105|edgar/data/5/0000000005-24-000004/a.txt",
      "13D|Short Row|9|20240105",
      "13D/AB|Long Form|6|20240105|edgar/data/6/0000000006-24-000005/a.txt" }

IndexDates == {"2024-01-05"}

IndexTexts ==
    { Join(ls, "\n") : ls \in UNION { [1..n -> IndexLines] : n \in 0..MaxLines } }

InitParse ==
    /\ pc = "parse_call"
    /\ args \in [index_content : IndexTexts, date : IndexDates]
    /\ loc = None
    /\ ret = None
    /\ net = <<>>

ParseDailyIndexCall ==
    /\ pc = "parse_call"
    /\ ret' = _parse_daily_index(args.index_content, args.date)
    /\ pc' = "parse_done"
    /\ UNCHANGED <<args, loc, net>>

NextParse == ParseDailyIndexCall

SpecParse == InitParse /\ [][NextParse]_vars

(***************************************************************************)
(* Claims about _parse_daily_index                                         *)
(***************************************************************************)
IndexLinesOf(content) == Split(content, "\n")

\* index of the first line starting with 'Form Type', 0 when there is none
HeaderAt(L) ==
    IF \E h \in 1..Len(L) : StartsWith(L[h], "Form Type")
    THEN CHOOSE h \in 1..Len(L) :
            /\ StartsWith(L[h], "Form Type")
            /\ \A g \in 1..(h - 1) : ~StartsWith(L[g], "Form Type")
    ELSE 0

QualifyingRow(L, k) ==
    /\ HeaderAt(L) # 0
    /\ k > HeaderAt(L)
    /\ Strip(L[k]) # ""
    /\ Len(Split(L[k], "|")) >= 5
    /\ Strip(Split(L[k], "|")[1]) \in Forms13D

QualifyingRows(L) == { k \in 1..Len(L) : QualifyingRow(L, k) }

\* the j-th smallest member of a set of integers
Nth(S, j) == CHOOSE k \in S : Cardinality({ m \in S : m < k }) = j - 1

\* C1: every record returned by _parse_daily_index has form 13D or 13D/A and an
\* accession_number that is empty or of the shape \d{10}-\d{2}-\d{6}.
C1_FormAndAccession ==
    pc = "parse_done" =>
        \A k \in 1..Len(ret) :
            /\ ret[k].form \in Forms13D
            /\ \/ ret[k].accession_number = ""
               \/ AccessionShape(ret[k].accession_number)

C1_Witness ==
    /\ pc = "parse_done"
    /\ \E k \in 1..Len(ret) : ret[k].accession_number = "" /\ ret[k].form = "13D/A"
    /\ \E k \in 1..Len(ret) : ret[k].accession_number = "0000102909-24-000011"

\* C2: _parse_daily_index returns one record per non-blank line after the first
\* 'Form Type' line that has at least 5 fields and a trimmed first field 13D or
\* 13D/A, in line order, and nothing else.
C2_OneRecordPerQualifyingRow ==
    pc = "parse_done" =>
        LET L == IndexLinesOf(args.index_content)
            Q == QualifyingRows(L)
        IN  /\ Len(ret) = Cardinality(Q)
            /\ \A j \in 1..Len(ret) :
                    LET parts == Split(L[Nth(Q, j)], "|")
                    IN  /\ ret[j].form = Strip(parts[1])
                        /\ ret[j].company_name = Strip(parts[2])
                        /\ ret[j].cik = Strip(parts[3])
                        /\ ret[j].filename = Strip(parts[5])
                        /\ ret[j].filing_date = args.date

\* header, one 13D row and two rows that do not match: exactly one record
C2_Witness ==
    /\ pc = "parse_done"
    /\ LET L == IndexLinesOf(args.index_content)
       IN  /\ Len(L) = 4
           /\ HeaderAt(L) = 1
           /\ Cardinality(QualifyingRows(L)) = 1
           /\ \A k \in 2..4 : Strip(L[k]) # ""
    /\ Len(ret) = 1

(***************************************************************************)
(* Form13DFetcher._filter_institutional_investors                          *)
(***************************************************************************)
\* dict.get(key, default)
Get(d, key, default) == IF key \in DOMAIN d THEN d[key] ELSE default

\* d[key] = value
SetKey(d, key, value) ==
    [k \in DOMAIN d \cup {key} |-> IF k = key THEN value ELSE d[k]]

institutional_keywords ==
    <<"fund", "capital", "management", "partners", "holdings", "investment",
      "advisors", "asset", "trust", "group", "llc", "lp", "corp", "inc",
      "pension", "endowment", "foundation", "insurance", "bank">>

institutional_patterns ==
    <<"[a-z]+ capital", "[a-z]+ fund", "[a-z]+ management", "[a-z]+ partners",
      "[a-z]+ advisors", "[a-z]+ asset", "pension fund", "investment company",
      "mutual fund", "hedge fund", "private equity">>

LowerLetters == { Char(LowerCase, i) : i \in 1..Len(LowerCase) }

\* re.search(pattern, s) for the patterns of the list: a literal, or a literal
\* preceded by one or more characters of [a-z]
RegexSearch(pattern, s) ==
    IF StartsWith(pattern, "[a-z]+")
    THEN LET lit == SubSeq(pattern, 7, Len(pattern))
         IN  \E i \in 2..Len(s) :
                /\ Char(s, i - 1) \in LowerLetters
                /\ OccursAt(s, lit, i)
    ELSE Contains(s, pattern)

\* variant: the keyword has to start the name (startswith for in)
IsInstitutionalPrefix(company_name) ==
    \E k \in 1..Len(institutional_keywords) :
        StartsWith(company_name, institutional_keywords[k])

\* any(keyword in company_name for keyword in self.institutional_keywords)
IsInstitutional(company_name) ==
    \E k \in 1..Len(institutional_keywords) :
        Contains(company_name, institutional_keywords[k])

FirstKeywordOnly(company_name) ==
    LET k == CHOOSE i \in 1..Len(institutional_keywords) :
                /\ Contains(company_name, institutional_keywords[i])
                /\ \A j \in 1..(i - 1) :
                        ~Contains(company_name, institutional_keywords[j])
    IN  <<institutional_keywords[k]>>

\* [keyword for keyword in self.institutional_keywords if keyword in company_name]
KeywordIndicators(company_name) ==
    SelectSeq(institutional_keywords, LAMBDA keyword : Contains(company_name, keyword))

TagAccumulating(filing, indicators) ==
    SetKey(SetKey(filing, "filer_type", "Institutional"),
           "institutional_indicators",
           Get(filing, "institutional_indicators", <<>>) \o indicators)

\* filing['filer_type'] = 'Institutional'; filing['institutional_indicators'] = ...
Tag(filing, indicators) ==
    SetKey(SetKey(filing, "filer_type", "Institutional"),
           "institutional_indicators", indicators)

\* the for loop over institutional_patterns, from pattern number p on: the
\* records it appends for one filing (it stops at the first match)
RECURSIVE PatternLoop(_, _, _)
PatternLoop(filing, company_name, p) ==
    IF p > Len(institutional_patterns) THEN <<>>
    ELSE IF RegexSearch(institutional_patterns[p], company_name)
    THEN <<Tag(filing, <<institutional_patterns[p]>>)>>
    ELSE PatternLoop(filing, company_name, p + 1)

ClassifyAsTagger(filing) ==
    LET company_name == Lower(Get(filing, "company_name", ""))
    IN  IF IsInstitutional(company_name)
        THEN <<Tag(filing, KeywordIndicators(company_name))>>
        ELSE IF PatternLoop(filing, company_name, 1) # <<>>
        THEN PatternLoop(filing, company_name, 1)
        ELSE <<filing>>

\* the body of the for loop over filings: the records appended for one filing
ClassifyFiling(filing) ==
    LET company_name == Lower(Get(filing, "company_name", ""))
    IN  IF IsInstitutional(company_name)
        THEN <<Tag(filing, KeywordIndicators(company_name))>>
        ELSE PatternLoop(filing, company_name, 1)

RECURSIVE _filter_institutional_investors(_)
_filter_institutional_investors(filings) ==
    IF filings = <<>> THEN <<>>
    ELSE ClassifyFiling(Head(filings))
            \o _filter_institutional_investors(Tail(filings))

(***************************************************************************)
(* Inputs of the classifier: records as the daily index parser and as      *)
(* search_filings build them                                               *)
(***************************************************************************)
MaxFilings == 3

CompanyNames ==
    { "Vanguard Group Inc", "Smith John Individual", "Acme Private Equity",
      "GEODE CAPITAL MANAGEMENT LLC", "Morgan Stanley", "Apex Hedge Fund Partners",
      "" }

ClassifierInputs ==
    { [form |-> "13D", filing_date |-> "2024-01-05", company_name |-> n,
       cik |-> "1", accession_number |-> "", filename |-> "f",
       filer_type |-> "Unknown"] : n \in CompanyNames }
    \cup
    { [form |-> "13D/A", filing_date |-> "2024-01-05",
       accession_number |-> "0000102909-24-000011", cik |-> "102909",
       ticker |-> "Unknown"] }

InitClassify ==
    /\ pc = "classify_call"
    /\ args \in { [filings |-> fs] :
                    fs \in UNION { [1..n -> ClassifierInputs] : n \in 0..MaxFilings } }
    /\ loc = None
    /\ ret = None
    /\ net = <<>>

\* institutional_filings = self._filter_institutional_investors(filings)
Classify ==
    /\ pc = "classify_call"
    /\ ret' = _filter_institutional_investors(args.filings)
    /\ pc' = "classified"
    /\ UNCHANGED <<args, loc, net>>

\* the returned list is classified a second time
ClassifyAgain ==
    /\ pc = "classified"
    /\ loc' = [first |-> ret]
    /\ ret' = _filter_institutional_investors(ret)
    /\ pc' = "reclassified"
    /\ UNCHANGED <<args, net>>

NextClassify == Classify \/ ClassifyAgain

SpecClassify == InitClassify /\ [][NextClassify]_vars

(***************************************************************************)
(* Claims about the classifier                                             *)
(***************************************************************************)
NameOf(filing) ==
    IF "company_name" \in DOMAIN filing THEN Lower(filing.company_name) ELSE ""

HasKeyword(name) ==
    \E k \in 1..Len(institutional_keywords) :
        \E i \in 1..Len(name) : OccursAt(name, institutional_keywords[k], i)

MatchesPattern(name) ==
    \E p \in 1..Len(institutional_patterns) :
        RegexSearch(institutional_patterns[p], name)

\* positions of the input list whose record the classifier has to keep
KeptPositions(filings) ==
    { i \in 1..Len(filings) :
        HasKeyword(NameOf(filings[i])) \/ MatchesPattern(NameOf(filings[i])) }

SeqToSet(xs) == { xs[i] : i \in 1..Len(xs) }

\* C6: a record whose lower-cased company_name contains a keyword is returned
\* with filer_type Institutional and with every keyword contained in the name
\* as its institutional_indicators; 'Vanguard Group Inc' gets group and inc.
C6_AllKeywordIndicators ==
    pc = "classified" =>
        LET K == KeptPositions(args.filings)
        IN  /\ Len(institutional_keywords) = 19
            /\ \A j \in 1..Len(ret) :
                    LET name == NameOf(args.filings[Nth(K, j)])
                    IN  HasKeyword(name) =>
                            /\ ret[j].filer_type = "Institutional"
                            /\ SeqToSet(ret[j].institutional_indicators)
                                = { kw \in SeqToSet(institutional_keywords) :
                                        \E i \in 1..Len(name) : OccursAt(name, kw, i) }
                            /\ name = "vanguard group inc" =>
                                    {"group", "inc"}
                                        \subseteq SeqToSet(ret[j].institutional_indicators)

C6_Witness ==
    /\ pc = "classified"
    /\ \E j \in 1..Len(ret) :
        /\ ret[j].company_name = "Vanguard Group Inc"
        /\ ret[j].institutional_indicators = <<"group", "inc">>
    /\ \E j \in 1..Len(ret) :
        /\ ret[j].company_name = "GEODE CAPITAL MANAGEMENT LLC"
        /\ Len(ret[j].institutional_indicators) = 3

\* C7: the classifier returns exactly the records whose lower-cased name has a
\* keyword or matches a pattern, once each and in input order; every other
\* record (no company_name included) is dropped.
C7_StrictFilter ==
    pc = "classified" =>
        LET K == KeptPositions(args.filings)
        IN  /\ Len(ret) = Cardinality(K)
            /\ \A j \in 1..Len(ret) :
                \A key \in DOMAIN args.filings[Nth(K, j)] \ {"filer_type"} :
                    /\ key \in DOMAIN ret[j]
                    /\ ret[j][key] = args.filings[Nth(K, j)][key]

C7_Witness ==
    /\ pc = "classified"
    /\ Len(args.filings) = 3
    /\ Get(args.filings[1], "company_name", "") = "Smith John Individual"
    /\ "company_name" \notin DOMAIN args.filings[2]
    /\ Get(args.filings[3], "company_name", "") = "Acme Private Equity"
    /\ Len(ret) = 1
    /\ ret[1].company_name = "Acme Private Equity"

\* C8: classifying the returned list again returns the same records in the same
\* order with the same filer_type and institutional_indicators.
C8_Idempotent ==
    pc = "reclassified" => ret = loc.first

C8_Witness ==
    /\ pc = "reclassified"
    /\ \E j \in 1..Len(ret) : ret[j].institutional_indicators = <<"private equity">>
    /\ \E j \in 1..Len(ret) : ret[j].institutional_indicators = <<"group", "inc">>

\* C17: every pattern of the regex step other than 'private equity' contains
\* a keyword, so the regex step tags a record only through 'private equity':
\* the institutional_indicators of a returned record are keywords, or they are
\* exactly ['private equity'], which is the case for every record whose name
\* has no keyword.
C17_RegexOnlyPrivateEquity ==
    /\ \A p \in 1..Len(institutional_patterns) :
            institutional_patterns[p] # "private equity" =>
                \E k \in 1..Len(institutional_keywords) :
                    Contains(institutional_patterns[p], institutional_keywords[k])
    /\ pc = "classified" =>
            \A j \in 1..Len(ret) :
                LET indicators == ret[j].institutional_indicators
                IN  /\ \/ indicators = <<"private equity">>
                       \/ SeqToSet(indicators) \subseteq SeqToSet(institutional_keywords)
                    /\ ~HasKeyword(NameOf(ret[j])) =>
                            indicators = <<"private equity">>

\* a result with a record tagged by the regex step and a record whose name
\* matches other patterns and was tagged by the keyword step
C17_Witness ==
    /\ pc = "classified"
    /\ \E j \in 1..Len(ret) :
            /\ ~HasKeyword(NameOf(ret[j]))
            /\ ret[j].institutional_indicators = <<"private equity">>
    /\ \E j \in 1..Len(ret) :
            /\ RegexSearch("hedge fund", NameOf(ret[j]))
            /\ RegexSearch("[a-z]+ partners", NameOf(ret[j]))
            /\ SeqToSet(ret[j].institutional_indicators) = {"fund", "partners"}

(***************************************************************************)
(* Form13FFetcher.parse_13f_xml                                            *)
(*                                                                         *)
(* xml_content is given by what ET.fromstring makes of it: a ParseError or *)
(* the root of an element tree.  An element is [tag, text, kids]; an       *)
(* element without character data (text is None) has no text field.       *)
(***************************************************************************)
ParseError == [parse_error |-> TRUE]

Elem(tag, text, kids) == [tag |-> tag, text |-> text, kids |-> kids]
ElemNoText(tag, kids) == [tag |-> tag, kids |-> kids]

\* elem.text
TextOf(elem) == IF "text" \in DOMAIN elem THEN elem.text ELSE None

\* all elements below e, in document order
RECURSIVE Descendants(_)
Descendants(e) ==
    LET RECURSIVE Walk(_)
        Walk(ks) == IF ks = <<>> THEN <<>>
                    ELSE <<Head(ks)>> \o Descendants(Head(ks)) \o Walk(Tail(ks))
    IN  Walk(e.kids)

\* e.findall('.//tag')
FindAll(e, tag) == SelectSeq(Descendants(e), LAMBDA d : d.tag = tag)

\* e.find('.//tag'): an element or None
Find(e, tag) == IF FindAll(e, tag) = <<>> THEN None ELSE Head(FindAll(e, tag))

\* a or b for two find() results: an Element is true when it has children
OrElem(a, b) == IF a # None /\ a.kids # <<>> THEN a ELSE b

\* a or b for two findall() results: a list is true when it is not empty
OrList(a, b) == IF a # <<>> THEN a ELSE b

RECURSIVE DigitsValue(_, _)
DigitsValue(s, acc) ==
    IF s = "" THEN acc
    ELSE DigitsValue(Tail(s),
                     acc * 10 + (CHOOSE d \in 0..9 : Char("0123456789", d + 1) = Head(s)))

\* int(elem.text): the value, or the exception raised for None and for a string
\* that is not an optionally signed run of digits within whitespace
PyInt(elem) ==
    IF "text" \notin DOMAIN elem THEN [raised |-> "TypeError", value |-> 0]
    ELSE LET t    == Strip(elem.text)
             sign == IF t # "" /\ Head(t) \in {"+", "-"} THEN Head(t) ELSE ""
             body == IF sign = "" THEN t ELSE Tail(t)
         IN  IF body = "" \/ ~AllDigits(body)
             THEN [raised |-> "ValueError", value |-> 0]
             ELSE [raised |-> "",
                   value  |-> IF sign = "-" THEN 0 - DigitsValue(body, 0)
                              ELSE DigitsValue(body, 0)]

\* info_table = root.find('.//infoTable') or root.find('.//informationTable')
LocateTable(root) == OrElem(Find(root, "infoTable"), Find(root, "informationTable"))

\* info_table.findall('.//infoTable') or info_table.findall('.//holding')
LocateEntries(info_table) ==
    OrList(FindAll(info_table, "infoTable"), FindAll(info_table, "holding"))

\* the body of the for loop over the entries: the dict built for one entry, or
\* the exception raised while building it
HoldingOf(entry) ==
    LET name_elem   == OrElem(Find(entry, "nameOfIssuer"), Find(entry, "issuerName"))
        cusip_elem  == Find(entry, "cusip")
        shares_elem == OrElem(Find(entry, "sshPrnamt"),
                              Find(entry, "sharesOrPrincipalAmount"))
        value_elem  == Find(entry, "value")
        h0 == <<>>
        h1 == IF name_elem # None
              THEN SetKey(h0, "issuer_name", TextOf(name_elem)) ELSE h0
        h2 == IF cusip_elem # None THEN SetKey(h1, "cusip", TextOf(cusip_elem)) ELSE h1
        h3 == IF shares_elem # None
              THEN SetKey(h2, "shares", TextOf(shares_elem)) ELSE h2
    IN  IF value_elem = None THEN [raised |-> "", holding |-> h3]
        ELSE IF PyInt(value_elem).raised # ""
        THEN [raised |-> PyInt(value_elem).raised, holding |-> h3]
        ELSE [raised  |-> "",
              holding |-> SetKey(h3, "value", PyInt(value_elem).value * 1000)]

\* variant: an entry without any field ends the loop (break for continue)
RECURSIVE HoldingsOfBreakOnEmpty(_, _)
HoldingsOfBreakOnEmpty(entries, holdings) ==
    IF entries = <<>> THEN [raised |-> "", holdings |-> holdings]
    ELSE LET h == HoldingOf(Head(entries))
         IN  IF h.raised # "" THEN [raised |-> h.raised, holdings |-> holdings]
             ELSE IF h.holding # <<>>
             THEN HoldingsOfBreakOnEmpty(Tail(entries), Append(holdings, h.holding))
             ELSE [raised |-> "", holdings |-> holdings]

\* the for loop over the entries: the holdings list, or the exception
RECURSIVE HoldingsOf(_, _)
HoldingsOf(entries, holdings) ==
    IF entries = <<>> THEN [raised |-> "", holdings |-> holdings]
    ELSE LET h == HoldingOf(Head(entries))
         IN  IF h.raised # "" THEN [raised |-> h.raised, holdings |-> holdings]
             ELSE IF h.holding # <<>>
             THEN HoldingsOf(Tail(entries), Append(holdings, h.holding))
             ELSE HoldingsOf(Tail(entries), holdings)

\* the rows of the returned DataFrame
parse_13f_xml(xml_content) ==
    IF xml_content = ParseError THEN <<>>
    ELSE LET info_table == LocateTable(xml_content)
             result     == IF info_table # None
                           THEN HoldingsOf(LocateEntries(info_table), <<>>)
                           ELSE [raised |-> "", holdings |-> <<>>]
         IN  IF result.raised # "" THEN <<>> ELSE result.holdings

(***************************************************************************)
(* Inputs of the 13F parser: information tables in the schema variants     *)
(***************************************************************************)
MaxEntries == 2

Leaf(tag, text) == Elem(tag, text, <<>>)

EntryFields ==
    { <<Leaf("value", "500")>>,
      <<Leaf("nameOfIssuer", "A"), Leaf("cusip", "C"), Leaf("value", "500"),
        Leaf("sshPrnamt", "9")>>,
      <<Leaf("nameOfIssuer", "A"), Leaf("issuerName", "B"), Leaf("sshPrnamt", "9"),
        Leaf("sharesOrPrincipalAmount", "8")>>,
      <<Leaf("issuerName", "B"), Leaf("sharesOrPrincipalAmount", "8"),
        Leaf("value", " -7 ")>>,
      <<Leaf("nameOfIssuer", "A"),
        ElemNoText("shrsOrPrnAmt", <<Leaf("sshPrnamt", "9")>>),
        Leaf("value", "12")>>,
      <<Leaf("value", "1,000")>>,
      <<ElemNoText("value", <<>>)>>,
      <<>> }

TableTags == {"informationTable", "infoTable"}
EntryTags == {"infoTable", "holding"}

XmlEntries == { ElemNoText(t, f) : t \in EntryTags, f \in EntryFields }

XmlTables ==
    { ElemNoText(t, es) :
        t \in TableTags, es \in UNION { [1..n -> XmlEntries] : n \in 0..MaxEntries } }

XmlDocuments ==
    {ParseError} \cup XmlTables
        \cup { ElemNoText("edgarSubmission", <<t>>) : t \in XmlTables }

InitXml ==
    /\ pc = "xml_call"
    /\ args \in [xml_content : XmlDocuments]
    /\ loc = None
    /\ ret = None
    /\ net = <<>>

ParseXmlCall ==
    /\ pc = "xml_call"
    /\ ret' = parse_13f_xml(args.xml_content)
    /\ pc' = "xml_done"
    /\ UNCHANGED <<args, loc, net>>

NextXml == ParseXmlCall

SpecXml == InitXml /\ [][NextXml]_vars

(***************************************************************************)
(* Claims about parse_13f_xml                                              *)
(***************************************************************************)
\* the information table of a document: the root or the element below it
TableOf(doc) == IF doc.tag \in TableTags THEN doc ELSE doc.kids[1]

HasTag(e, tag) == \E i \in 1..Len(Descendants(e)) : Descendants(e)[i].tag = tag

\* the first element below e with the tag
FirstWithTag(e, tag) ==
    Descendants(e)[Nth({ i \in 1..Len(Descendants(e)) : Descendants(e)[i].tag = tag }, 1)]

\* C9: a table (informationTable or infoTable) with one entry that reports
\* <value>500</value> gives exactly one Holding Record, with value 500000.
C9_ValueTimesThousand ==
    (/\ pc = "xml_done"
     /\ args.xml_content # ParseError
     /\ Len(TableOf(args.xml_content).kids) = 1
     /\ HasTag(TableOf(args.xml_content).kids[1], "value")
     /\ FirstWithTag(TableOf(args.xml_content).kids[1], "value") = Leaf("value", "500"))
        => /\ Len(ret) = 1
           /\ "value" \in DOMAIN ret[1]
           /\ ret[1].value = 500000

\* C10: each field comes from the first of its alternate tags that the entry
\* has: issuer_name is the text of nameOfIssuer when the entry has one, shares
\* the text of sshPrnamt when the entry has one.
C10_FirstAlternateTag ==
    (/\ pc = "xml_done"
     /\ args.xml_content # ParseError
     /\ LocateTable(args.xml_content) # None
     /\ Len(ret) = Len(LocateEntries(LocateTable(args.xml_content))))
        => \A k \in 1..Len(ret) :
            LET entry == LocateEntries(LocateTable(args.xml_content))[k]
            IN  /\ HasTag(entry, "nameOfIssuer") =>
                    /\ "issuer_name" \in DOMAIN ret[k]
                    /\ ret[k].issuer_name = FirstWithTag(entry, "nameOfIssuer").text
                /\ HasTag(entry, "sshPrnamt") =>
                    /\ "shares" \in DOMAIN ret[k]
                    /\ ret[k].shares = FirstWithTag(entry, "sshPrnamt").text

\* the entries the parser iterates over
LocatedEntries(doc) ==
    IF doc = ParseError \/ LocateTable(doc) = None THEN <<>>
    ELSE LocateEntries(LocateTable(doc))

\* an entry for which int(value text) raises
EntryRaises(entry) == HoldingOf(entry).raised # ""

\* an entry from which no field could be extracted
NothingExtracted(entry) == ~EntryRaises(entry) /\ HoldingOf(entry).holding = <<>>

base_url == "https://data.sec.gov"

Sleep(seconds) == "sleep " \o seconds
GetUrl(url)    == "GET " \o url

\* the two kinds of event
IsRequest(event) == StartsWith(event, "GET ")
IsSleep(event) == StartsWith(event, "sleep ")

\* the requests of the event log, in the order they were issued
Requests == SelectSeq(net, IsRequest)

\* requests.get raised, or response.raise_for_status() raises
RequestFailed(response) == response.status_code = 0 \/ response.status_code >= 400

\* f"{s:0>10}"
RECURSIVE ZeroPad(_, _)
ZeroPad(s, width) == IF Len(s) >= width THEN s ELSE ZeroPad("0" \o s, width)

UpperChar(c) ==
    IF \E i \in 1..Len(LowerCase) : Char(LowerCase, i) = c
    THEN Char(UpperCase, CHOOSE i \in 1..Len(LowerCase) : Char(LowerCase, i) = c)
    ELSE c

\* s.upper()
RECURSIVE Upper(_)
Upper(s) == IF s = "" THEN "" ELSE UpperChar(Head(s)) \o Upper(Tail(s))

(***************************************************************************)
(* Form13DFetcher._get_cik_from_ticker: [cik, net], cik '' for None        *)
(***************************************************************************)
tickers_url == base_url \o "/files/company_tickers.json"

_get_cik_from_ticker(ticker, response) ==
    LET calls == <<Sleep("0.1"), GetUrl(tickers_url)>>
        hits  == { k \in 1..Len(response.body) :
                    Upper(response.body[k].ticker) = Upper(ticker) }
    IN  IF RequestFailed(response) \/ hits = {}
        THEN [cik |-> "", net |-> calls]
        ELSE [cik |-> response.body[Nth(hits, 1)].cik_str, net |-> calls]

(***************************************************************************)
(* Form13DFetcher.search_filings and Form13DFetcher._search_by_filer_cik   *)
(***************************************************************************)
SubmissionsUrl(cik) == base_url \o "/submissions/CIK" \o ZeroPad(cik, 10) \o ".json"

\* data.get('filings', {}).get('recent', {})
RecentFilings(data) == Get(Get(data, "filings", <<>>), "recent", <<>>)

OutOfRangeExclusive(filing_date, start_date, end_date) ==
    \/ start_date # "" /\ ~StrLess(start_date, filing_date)
    \/ end_date # "" /\ ~StrLess(filing_date, end_date)

\* the two date tests of the loop body that end in continue
OutOfRange(filing_date, start_date, end_date) ==
    \/ start_date # "" /\ StrLess(filing_date, start_date)
    \/ end_date # "" /\ StrLess(end_date, filing_date)

\* the locals of both functions when the for loop starts; i is the index that
\* enumerate() hands out next
LoopLocals(data, cik) ==
    [forms             |-> Get(RecentFilings(data), "form", <<>>),
     filing_dates      |-> Get(RecentFilings(data), "filingDate", <<>>),
     accession_numbers |-> Get(RecentFilings(data), "accessionNumber", <<>>),
     primary_documents |-> Get(RecentFilings(data), "primaryDocument", <<>>),
     cik               |-> cik,
     i                 |-> 0,
     filings           |-> <<>>]

\* filing_info of search_filings for position i
SearchFilingInfo(l, i) ==
    [form             |-> l.forms[i + 1],
     filing_date      |-> l.filing_dates[i + 1],
     accession_number |-> l.accession_numbers[i + 1],
     cik              |-> l.cik,
     ticker           |-> IF args.ticker # "" THEN args.ticker ELSE "Unknown"]

\* filing_info of _search_by_filer_cik for position i
FilerFilingInfo(l, i) ==
    [form             |-> l.forms[i + 1],
     filing_date      |-> l.filing_dates[i + 1],
     accession_number |-> l.accession_numbers[i + 1],
     filer_cik        |-> l.cik,
     filer_name       |-> args.filer_name,
     filer_type       |-> "Institutional",
     primary_document |-> IF i < Len(l.primary_documents)
                          THEN l.primary_documents[i + 1] ELSE ""]

\* search_filings up to the for loop: the CIK lookup, the guards, the request
SearchFilingsCall ==
    /\ pc = "search_call"
    /\ LET lookup == IF args.ticker # "" /\ args.cik = ""
                     THEN _get_cik_from_ticker(args.ticker, args.tickers_response)
                     ELSE [cik |-> args.cik, net |-> <<>>]
           cik    == lookup.cik
           calls  == lookup.net \o <<Sleep("0.1"), GetUrl(SubmissionsUrl(cik))>>
       IN  IF cik = ""
           THEN /\ net' = net \o lookup.net
                /\ ret' = <<>>
                /\ pc' = "search_filings_done"
                /\ loc' = loc
           ELSE IF RequestFailed(args.response)
           THEN /\ net' = net \o calls
                /\ ret' = <<>>
                /\ pc' = "search_filings_done"
                /\ loc' = loc
           ELSE /\ net' = net \o calls
                /\ loc' = LoopLocals(args.response.body, cik)
                /\ pc' = "search_filings_loop"
                /\ ret' = ret
    /\ UNCHANGED args

\* _search_by_filer_cik up to the for loop
SearchByFilerCikCall ==
    /\ pc = "search_call"
    /\ args.cik # ""
    /\ net' = net \o <<Sleep("0.1"), GetUrl(SubmissionsUrl(args.cik))>>
    /\ IF RequestFailed(args.response)
       THEN /\ ret' = <<>>
            /\ pc' = "search_by_filer_cik_done"
            /\ loc' = loc
       ELSE /\ loc' = LoopLocals(args.response.body, args.cik)
            /\ pc' = "search_by_filer_cik_loop"
            /\ ret' = ret
    /\ UNCHANGED args

\* one pass through the body of `for i, form in enumerate(forms)`: the list
\* after it, whether the loop is left (break or exception), and the exception
Visit(l, filing_info) ==
    IF l.forms[l.i + 1] \notin Forms13D
    THEN [raised |-> "", done |-> FALSE, filings |-> l.filings]
    ELSE IF l.i >= Len(l.filing_dates)
    THEN [raised |-> "IndexError", done |-> TRUE, filings |-> l.filings]
    ELSE IF OutOfRange(l.filing_dates[l.i + 1], args.start_date, args.end_date)
    THEN [raised |-> "", done |-> FALSE, filings |-> l.filings]
    ELSE IF l.i >= Len(l.accession_numbers)
    THEN [raised |-> "IndexError", done |-> TRUE, filings |-> l.filings]
    ELSE [raised  |-> "",
          done    |-> Len(l.filings) + 1 >= args.max_results,
          filings |-> Append(l.filings, filing_info)]

\* the for loop of both functions, one position per step
LoopStep(fn, filing_info) ==
    /\ pc = fn \o "_loop"
    /\ IF loc.i >= Len(loc.forms)
       THEN /\ ret' = loc.filings
            /\ pc' = fn \o "_done"
            /\ loc' = loc
       ELSE LET v == Visit(loc, filing_info)
            IN  /\ loc' = [loc EXCEPT !.filings = v.filings, !.i = @ + 1]
                /\ IF v.raised # ""
                   THEN ret' = [raised |-> v.raised] /\ pc' = fn \o "_raised"
                   ELSE IF v.done
                   THEN ret' = v.filings /\ pc' = fn \o "_done"
                   ELSE ret' = ret /\ pc' = pc
    /\ UNCHANGED <<args, net>>

SearchFilingsLoop ==
    LoopStep("search_filings",
             IF loc.i < Len(loc.filing_dates) /\ loc.i < Len(loc.accession_numbers)
             THEN SearchFilingInfo(loc, loc.i) ELSE <<>>)

SearchByFilerCikLoop ==
    LoopStep("search_by_filer_cik",
             IF loc.i < Len(loc.filing_dates) /\ loc.i < Len(loc.accession_numbers)
             THEN FilerFilingInfo(loc, loc.i) ELSE <<>>)

(***************************************************************************)
(* Inputs of the submissions extractor                                     *)
(***************************************************************************)
MaxRecent == 5
MaxResults == 3

EarlyDate == "2024-01-05"
LateDate == "2024-02-10"

\* (form, filingDate) of one position of filings.recent
RecentEntries ==
    { <<"13D", EarlyDate>>, <<"13D", LateDate>>, <<"13D/A", LateDate>>,
      <<"10-K", EarlyDate>> }

PositionDigits == "0123456789"

\* a distinct accession number for each position (0-based)
AccessionAt(i) == "0000320193-24-00000" \o Char(PositionDigits, i + 1)

SubmissionsOf(entries) ==
    [filings |-> [recent |->
        [form            |-> [k \in 1..Len(entries) |-> entries[k][1]],
         filingDate      |-> [k \in 1..Len(entries) |-> entries[k][2]],
         accessionNumber |-> [k \in 1..Len(entries) |-> AccessionAt(k - 1)],
         primaryDocument |-> [k \in 1..Len(entries) |-> "primary.htm"]]]]

OkResponse(body) == [status_code |-> 200, body |-> body]

TickersBody == <<[ticker |-> "AAPL", cik_str |-> "320193"]>>

\* calls with a CIK, answered with a well-formed submissions document
RegularSearches ==
    { [ticker |-> "", cik |-> "320193", filer_name |-> "Vanguard Group Inc",
       start_date |-> sd, end_date |-> ed, max_results |-> m,
       response |-> OkResponse(SubmissionsOf(es)),
       tickers_response |-> OkResponse(TickersBody)] :
        sd \in {"", LateDate}, ed \in {"", EarlyDate}, m \in 0..MaxResults,
        es \in UNION { [1..n -> RecentEntries] : n \in 0..MaxRecent } }

ShortDates ==
    [filings |-> [recent |-> [form |-> <<"10-K", "13D">>,
                              filingDate |-> <<EarlyDate>>,
                              accessionNumber |-> <<AccessionAt(0), AccessionAt(1)>>]]]

ShortAccessions ==
    [filings |-> [recent |-> [form |-> <<"13D", "13D">>,
                              filingDate |-> <<EarlyDate, LateDate>>,
                              accessionNumber |-> <<AccessionAt(0)>>]]]

\* recent without the filingDate and accessionNumber arrays
FormsOnly == [filings |-> [recent |-> [form |-> <<"13D">>]]]

\* accessionNumber strings of another shape
OddAccessions ==
    [filings |-> [recent |-> [form |-> <<"13D", "13D/A">>,
                              filingDate |-> <<EarlyDate, LateDate>>,
                              accessionNumber |-> <<"0000320193-24-0001", "n/a">>]]]

\* calls by ticker, failed requests and documents with missing parts
IrregularSearches ==
    { [ticker |-> t, cik |-> c, filer_name |-> "Vanguard Group Inc",
       start_date |-> "", end_date |-> "", max_results |-> MaxResults,
       response |-> r, tickers_response |-> tr] :
        t \in {"", "aapl", "MSFT"}, c \in {"", "320193"},
        r \in { [status_code |-> 0, body |-> <<>>],
                [status_code |-> 404, body |-> <<>>],
                OkResponse(<<>>),
                OkResponse([filings |-> <<>>]),
                OkResponse(ShortDates),
                OkResponse(ShortAccessions),
                OkResponse(FormsOnly),
                OkResponse(OddAccessions),
                OkResponse(SubmissionsOf(<<<<"13D", EarlyDate>>>>)) },
        tr \in { OkResponse(TickersBody), [status_code |-> 0, body |-> <<>>] } }

InitSearch ==
    /\ pc = "search_call"
    /\ args \in RegularSearches \cup IrregularSearches
    /\ loc = None
    /\ ret = None
    /\ net = <<>>

NextSearch ==
    \/ SearchFilingsCall
    \/ SearchFilingsLoop
    \/ SearchByFilerCikCall
    \/ SearchByFilerCikLoop

SpecSearch == InitSearch /\ [][NextSearch]_vars

(***************************************************************************)
(* Claims about search_filings and _search_by_filer_cik                    *)
(***************************************************************************)
SearchDone == pc \in {"search_filings_done", "search_by_filer_cik_done"}

Recent == RecentFilings(args.response.body)

\* a CIK is given and the answer is a document with arrays of equal length
WellFormedSearch ==
    /\ args.cik # ""
    /\ args.response.status_code = 200
    /\ {"form", "filingDate", "accessionNumber"} \subseteq DOMAIN Recent
    /\ Len(Recent.filingDate) = Len(Recent.form)
    /\ Len(Recent.accessionNumber) = Len(Recent.form)

InDateRange(d) ==
    /\ args.start_date = "" \/ args.start_date = d \/ StrLess(args.start_date, d)
    /\ args.end_date = "" \/ args.end_date = d \/ StrLess(d, args.end_date)

\* the positions (0-based) the extractor has to report
MatchingPositions ==
    { i \in 0..(Len(Recent.form) - 1) :
        Recent.form[i + 1] \in Forms13D /\ InDateRange(Recent.filingDate[i + 1]) }

CountForm(f) == Cardinality({ i \in 1..Len(Recent.form) : Recent.form[i] = f })

\* C3: with a CIK and arrays of equal length, both extractors return the
\* positions with form 13D or 13D/A and a date in [start_date, end_date]
\* (string comparison, absent bound unbounded), in ascending order, all of them
\* unless the cap cuts the list; 3 13D and 2 10-K entries give 3 records.
C3_MatchingPositionsInOrder ==
    (SearchDone /\ WellFormedSearch) =>
        /\ Len(ret) <= Cardinality(MatchingPositions)
        /\ \A j \in 1..Len(ret) :
            LET i == Nth(MatchingPositions, j)
            IN  /\ ret[j].accession_number = Recent.accessionNumber[i + 1]
                /\ ret[j].form = Recent.form[i + 1]
                /\ ret[j].filing_date = Recent.filingDate[i + 1]
        /\ Cardinality(MatchingPositions) <= args.max_results =>
                Len(ret) = Cardinality(MatchingPositions)
        /\ (/\ CountForm("13D") = 3
            /\ CountForm("10-K") = 2
            /\ Len(Recent.form) = 5
            /\ args.start_date = ""
            /\ args.end_date = ""
            /\ args.max_results >= 3) => Len(ret) = 3

\* 3 13D entries and 2 10-K entries, start_date excludes two of the 13D entries
C3_Witness ==
    /\ pc = "search_filings_done"
    /\ WellFormedSearch
    /\ CountForm("13D") = 3
    /\ CountForm("10-K") = 2
    /\ args.start_date = LateDate
    /\ args.end_date = ""
    /\ args.max_results = 3
    /\ Cardinality({ i \in 1..Len(Recent.form) :
                        Recent.form[i] = "13D" /\ Recent.filingDate[i] = EarlyDate }) = 2
    /\ Len(ret) = 1
    /\ ret[1].filing_date = LateDate

\* C4: max_results is a hard cap: neither extractor returns more than
\* max_results records, whatever max_results is (0 included).
C4_HardCap ==
    SearchDone => Len(ret) <= args.max_results

(***************************************************************************)
(* datetime: a date is [year, month, day]                                  *)
(***************************************************************************)
IsLeap(y) == (y % 4 = 0 /\ y % 100 # 0) \/ y % 400 = 0

DaysInMonth(y, m) ==
    IF m = 2 THEN (IF IsLeap(y) THEN 29 ELSE 28)
    ELSE IF m \in {4, 6, 9, 11} THEN 30 ELSE 31

\* dt + timedelta(days=1)
NextDay(dt) ==
    IF dt.day < DaysInMonth(dt.year, dt.month) THEN [dt EXCEPT !.day = @ + 1]
    ELSE IF dt.month < 12 THEN [dt EXCEPT !.month = @ + 1, !.day = 1]
    ELSE [year |-> dt.year + 1, month |-> 1, day |-> 1]

\* dt - timedelta(days=1)
PrevDay(dt) ==
    IF dt.day > 1 THEN [dt EXCEPT !.day = @ - 1]
    ELSE IF dt.month > 1
    THEN [dt EXCEPT !.month = @ - 1, !.day = DaysInMonth(dt.year, dt.month - 1)]
    ELSE [year |-> dt.year - 1, month |-> 12, day |-> 31]

\* dt - timedelta(days=n)
RECURSIVE MinusDays(_, _)
MinusDays(dt, n) == IF n = 0 THEN dt ELSE MinusDays(PrevDay(dt), n - 1)

\* a <= b for datetimes
DateLE(a, b) ==
    \/ a.year < b.year
    \/ a.year = b.year /\ a.month < b.month
    \/ a.year = b.year /\ a.month = b.month /\ a.day <= b.day

\* datetime.strptime(s, '%Y-%m-%d') of a string of the shape YYYY-MM-DD
Strptime(s) ==
    [year  |-> DigitsValue(SubSeq(s, 1, 4), 0),
     month |-> DigitsValue(SubSeq(s, 6, 7), 0),
     day   |-> DigitsValue(SubSeq(s, 9, 10), 0)]

\* str(n) for n >= 0
RECURSIVE Str(_)
Str(n) == IF n < 10 THEN Char("0123456789", n + 1)
          ELSE Str(n \div 10) \o Char("0123456789", (n % 10) + 1)

\* dt.strftime('%Y-%m-%d')
IsoDate(dt) ==
    ZeroPad(Str(dt.year), 4) \o "-" \o ZeroPad(Str(dt.month), 2)
        \o "-" \o ZeroPad(Str(dt.day), 2)

\* dt.strftime('%Y%m%d')
CompactDate(dt) ==
    ZeroPad(Str(dt.year), 4) \o ZeroPad(Str(dt.month), 2) \o ZeroPad(Str(dt.day), 2)

(***************************************************************************)
(* Form13DFetcher.search_all_institutional_filings                         *)
(***************************************************************************)
\* what the server answers for a day it has no index for
NotFound == [status_code |-> 404, body |-> "Not Found"]

\* index_url of the loop body
IndexUrl(current_dt) ==
    base_url \o "/Archives/edgar/daily-index/" \o ZeroPad(Str(current_dt.year), 4)
        \o "/QTR" \o Str(((current_dt.month - 1) \div 3) + 1)
        \o "/master." \o CompactDate(current_dt) \o ".idx"

\* the function up to the while loop: the default dates and strptime
SweepCall ==
    /\ pc = "sweep_call"
    /\ LET start_date == IF args.start_date = ""
                         THEN IsoDate(MinusDays(args.now, 30)) ELSE args.start_date
           end_date   == IF args.end_date = "" THEN IsoDate(args.now) ELSE args.end_date
       IN  loc' = [filings    |-> <<>>,
                   current_dt |-> Strptime(start_date),
                   end_dt     |-> Strptime(end_date)]
    /\ pc' = "sweep_loop"
    /\ UNCHANGED <<args, ret, net>>

SweepDayDropCrossing(l, response) ==
    LET daily_filings == IF response.status_code = 200
                         THEN _parse_daily_index(response.body, IsoDate(l.current_dt))
                         ELSE <<>>
        filings       == l.filings \o daily_filings
    IN  [filings    |-> IF Len(filings) > args.max_results THEN l.filings ELSE filings,
         current_dt |-> NextDay(l.current_dt),
         end_dt     |-> l.end_dt,
         break      |-> Len(filings) >= args.max_results]

\* variant: a day whose request did not return 200 is requested again
SweepDayRetry(l, response) ==
    LET daily_filings == IF response.status_code = 200
                         THEN _parse_daily_index(response.body, IsoDate(l.current_dt))
                         ELSE <<>>
        filings       == l.filings \o daily_filings
    IN  [filings    |-> IF Len(filings) >= args.max_results
                        THEN Take(filings, args.max_results) ELSE filings,
         current_dt |-> IF response.status_code = 200
                        THEN NextDay(l.current_dt) ELSE l.current_dt,
         end_dt     |-> l.end_dt,
         break      |-> Len(filings) >= args.max_results]

\* the body of the while loop for the response to the day's request: the locals
\* after it and whether the loop is left by break
SweepDay(l, response) ==
    LET daily_filings == IF response.status_code = 200
                         THEN _parse_daily_index(response.body, IsoDate(l.current_dt))
                         ELSE <<>>
        filings       == l.filings \o daily_filings
    IN  [filings    |-> IF Len(filings) >= args.max_results
                        THEN Take(filings, args.max_results) ELSE filings,
         current_dt |-> NextDay(l.current_dt),
         end_dt     |-> l.end_dt,
         break      |-> Len(filings) >= args.max_results]

\* one pass of `while current_dt <= end_dt and len(filings) < max_results`
SweepLoop ==
    /\ pc = "sweep_loop"
    /\ DateLE(loc.current_dt, loc.end_dt)
    /\ Len(loc.filings) < args.max_results
    /\ LET url == IndexUrl(loc.current_dt)
           l   == SweepDay(loc, Get(args.index_responses, url, NotFound))
       IN  /\ net' = net \o <<Sleep("0.1"), GetUrl(url)>>
           /\ loc' = [filings    |-> l.filings,
                      current_dt |-> l.current_dt,
                      end_dt     |-> l.end_dt]
           /\ pc' = IF l.break THEN "sweep_filter" ELSE "sweep_loop"
    /\ UNCHANGED <<args, ret>>

\* the while condition is false
SweepLoopExit ==
    /\ pc = "sweep_loop"
    /\ ~(DateLE(loc.current_dt, loc.end_dt) /\ Len(loc.filings) < args.max_results)
    /\ pc' = "sweep_filter"
    /\ UNCHANGED <<args, loc, ret, net>>

\* return self._filter_institutional_investors(filings)
SweepReturn ==
    /\ pc = "sweep_filter"
    /\ ret' = _filter_institutional_investors(loc.filings)
    /\ pc' = "sweep_done"
    /\ UNCHANGED <<args, loc, net>>

(***************************************************************************)
(* Inputs of the date-range sweep                                          *)
(***************************************************************************)
MaxDays == 3
MaxSweepResults == 2

FirstDay == [year |-> 2024, month |-> 3, day |-> 30]

RECURSIVE PlusDays(_, _)
PlusDays(dt, n) == IF n = 0 THEN dt ELSE PlusDays(NextDay(dt), n - 1)

\* the days the server has an answer for, in calendar order
SweepDays == [k \in 1..MaxDays |-> PlusDays(FirstDay, k - 1)]

SweepDates == { IsoDate(SweepDays[k]) : k \in 1..MaxDays }

IndexOf(rows) == Join(<<"Description: Daily Index", HeaderLine>> \o rows, "\n")

Row(form, company_name, n) ==
    form \o "|" \o company_name \o "|" \o n \o "|20240330|edgar/data/" \o n
        \o "/000000000" \o n \o "-24-000001/d.txt"

IndexResponses ==
    { [status_code |-> 0, body |-> ""],
      NotFound,
      OkResponse(IndexOf(<<Row("13D", "Vanguard Group Inc", "1"),
                           Row("10-K", "Foo Corp", "2"),
                           Row("13D/A", "Acme Private Equity", "3")>>)),
      OkResponse(IndexOf(<<Row("13D", "Smith John Individual", "4"),
                           Row("13D", "BlackRock Inc", "5")>>)),
      OkResponse(IndexOf(<<Row("13D/A", "Geode Capital Management LLC", "6")>>)) }

\* sweeps over given dates, every combination of answers
RegularSweeps ==
    [start_date      : SweepDates,
     end_date        : SweepDates,
     now             : {SweepDays[MaxDays]},
     max_results     : 0..MaxSweepResults,
     index_responses : [{ IndexUrl(SweepDays[k]) : k \in 1..MaxDays } -> IndexResponses]]

\* sweeps that leave out a date, the same answer on every day
DefaultDateSweeps ==
    { [start_date |-> sd, end_date |-> ed, now |-> SweepDays[MaxDays],
       max_results |-> MaxSweepResults + 1,
       index_responses |-> [u \in { IndexUrl(SweepDays[k]) : k \in 1..MaxDays } |-> r]] :
        sd \in SweepDates \cup {""}, ed \in {""}, r \in IndexResponses }

\* ret holds a list from the start, so that the states of a run compare
InitSweep ==
    /\ pc = "sweep_call"
    /\ args \in RegularSweeps \cup DefaultDateSweeps
    /\ loc = None
    /\ ret = <<>>
    /\ net = <<>>

NextSweep == SweepCall \/ SweepLoop \/ SweepLoopExit \/ SweepReturn

SpecSweep == InitSweep /\ [][NextSweep]_vars

\* WF_vars(A) for an action A that is enabled exactly when guard holds and
\* always changes vars; this is WF_vars(A) with ENABLED <<A>>_vars written out
WeakFairCall == ([]<>(pc # "sweep_call")) \/ ([]<><<SweepCall>>_vars)

WeakFairLoop ==
    \/ []<>(~(/\ pc = "sweep_loop"
              /\ DateLE(loc.current_dt, loc.end_dt)
              /\ Len(loc.filings) < args.max_results))
    \/ []<><<SweepLoop>>_vars

WeakFairReturn == ([]<>(pc # "sweep_filter")) \/ ([]<><<SweepReturn>>_vars)

\* the function runs in one thread that is never suspended for ever: the step
\* the thread is at is eventually taken
SpecSweepFair ==
    /\ SpecSweep
    /\ WeakFairCall
    /\ WeakFairLoop
    /\ WF_vars(SweepLoopExit)
    /\ WeakFairReturn

(***************************************************************************)
(* Claims about the date-range sweep                                       *)
(***************************************************************************)
SweepStart ==
    IF args.start_date = "" THEN IsoDate(MinusDays(args.now, 30)) ELSE args.start_date

SweepEnd == IF args.end_date = "" THEN IsoDate(args.now) ELSE args.end_date

\* the rows of one day's index, none when the request did not return 200
RowsOfDay(k) ==
    LET response == args.index_responses[IndexUrl(SweepDays[k])]
    IN  IF response.status_code = 200
        THEN _parse_daily_index(response.body, IsoDate(SweepDays[k]))
        ELSE <<>>

\* the rows of the days of [start_date, end_date], earliest day first
RECURSIVE Concatenation(_)
Concatenation(k) ==
    IF k > MaxDays THEN <<>>
    ELSE (IF /\ ~StrLess(IsoDate(SweepDays[k]), SweepStart)
             /\ ~StrLess(SweepEnd, IsoDate(SweepDays[k]))
          THEN RowsOfDay(k) ELSE <<>>) \o Concatenation(k + 1)

\* 3 consecutive days, each with an index of 2 rows of form 13D or 13D/A
ThreeDaysOfTwoRows ==
    /\ args.start_date = IsoDate(SweepDays[1])
    /\ SweepEnd = IsoDate(SweepDays[3])
    /\ \A k \in 1..3 : Len(RowsOfDay(k)) = 2

\* C5 as stated: max_results = 2 over 3 days of 2 rows each returns exactly 2
\* records, the first two of the day-ordered concatenation.
C5_ExactlyTwoRecords ==
    (pc = "sweep_done" /\ args.max_results = 2 /\ ThreeDaysOfTwoRows) =>
        /\ Len(ret) = 2
        /\ \A j \in 1..Len(ret) :
            /\ ret[j].company_name = Concatenation(1)[j].company_name
            /\ ret[j].filing_date = Concatenation(1)[j].filing_date

\* C5 as amended: the sweep returns what the classifier keeps of the first
\* max_results records of the day-ordered concatenation; the day that crosses
\* the cap is cut, not dropped.
C5_ClassifiedPrefix ==
    pc = "sweep_done" =>
        /\ ret = _filter_institutional_investors(
                    Take(Concatenation(1), args.max_results))
        /\ Len(loc.filings) =
                IF Len(Concatenation(1)) < args.max_results
                THEN Len(Concatenation(1)) ELSE args.max_results

\* max_results = 2 over 3 days of 2 rows each: one of the first two rows is not
\* institutional and one record is returned
C5_Witness ==
    /\ pc = "sweep_done"
    /\ args.max_results = 2
    /\ ThreeDaysOfTwoRows
    /\ Len(loc.filings) = 2
    /\ Len(ret) = 1
    /\ ret[1].company_name = "BlackRock Inc"

\* the days of the range in calendar order: day j is start_date + (j - 1)
RangeDay(j) == PlusDays(Strptime(SweepStart), j - 1)

\* the requests issued so far are those for the first days of the range, one
\* request per day in ascending order, and there is none when the range is
\* empty or max_results is 0
C16_AscendingOncePerDay ==
    /\ \A j \in 1..Len(Requests) :
            /\ Requests[j] = GetUrl(IndexUrl(RangeDay(j)))
            /\ ~StrLess(SweepEnd, IsoDate(RangeDay(j)))
    /\ (StrLess(SweepEnd, SweepStart) \/ args.max_results = 0) => net = <<>>

\* a step taken when the record count has reached max_results issues no request
C16_NoRequestAfterCap ==
    (pc # "sweep_call" /\ Len(loc.filings) >= args.max_results) => net' = net

\* C16: the date-range sweep requests the daily index of the days of
\* [start_date, end_date] in strictly ascending order, each day at most once
\* whatever the answer was, issues no request once the record count has reached
\* max_results, issues none at all when start_date is after end_date or
\* max_results is 0, and always terminates.
C16_OrderedBoundedSweep ==
    /\ []C16_AscendingOncePerDay
    /\ [][C16_NoRequestAfterCap]_vars
    /\ <>(pc = "sweep_done")

\* a sweep over three days with max_results = 2: the request for the first day
\* fails, the second day fills the list, the third day is not requested
C16_Witness ==
    /\ pc = "sweep_done"
    /\ args.start_date = IsoDate(SweepDays[1])
    /\ SweepEnd = IsoDate(SweepDays[3])
    /\ args.max_results = 2
    /\ args.index_responses[IndexUrl(SweepDays[1])].status_code # 200
    /\ Len(loc.filings) = 2
    /\ Requests = <<GetUrl(IndexUrl(SweepDays[1])), GetUrl(IndexUrl(SweepDays[2]))>>

(***************************************************************************)
(* Form13FFetcher.fetch_13f_data with search_company_filings and           *)
(* get_filing_documents.  The k-th filing's index request is answered with *)
(* args.index_responses[k] and its document request with                   *)
(* args.doc_responses[k]; the text of a document response is given as the  *)
(* tree ET.fromstring builds from it, or ParseError.                       *)
(***************************************************************************)
base_url_13f == "https://www.sec.gov/Archives/edgar/data"
search_url == "https://efts.sec.gov/LATEST/search-index"

\* s.endswith(suffix)
EndsWith(s, suffix) ==
    Len(s) >= Len(suffix) /\ SubSeq(s, Len(s) - Len(suffix) + 1, Len(s)) = suffix

\* s.replace('-', '')
RECURSIVE RemoveHyphens(_)
RemoveHyphens(s) ==
    IF s = "" THEN ""
    ELSE (IF Head(s) = "-" THEN "" ELSE Head(s)) \o RemoveHyphens(Tail(s))

\* [hits, net]: the hits of the search API, [] after any exception
search_company_filings(cik, response) ==
    [net  |-> <<GetUrl(search_url)>>,
     hits |-> IF RequestFailed(response) THEN <<>>
              ELSE Get(Get(response.body, "hits", <<>>), "hits", <<>>)]

filing_url(accession_number, cik) ==
    base_url_13f \o "/" \o ZeroPad(cik, 10) \o "/" \o RemoveHyphens(accession_number)
        \o "/" \o accession_number \o "-index.json"

\* [docs, net]: the index document, {} after any exception
get_filing_documents(accession_number, cik, response) ==
    [net  |-> <<GetUrl(filing_url(accession_number, cik))>>,
     docs |-> IF RequestFailed(response) THEN <<>> ELSE response.body]

\* the items that qualify as primary 13F document
PrimaryItems(docs) ==
    LET items == Get(Get(docs, "directory", <<>>), "item", <<>>)
    IN  SelectSeq(items, LAMBDA doc :
            /\ EndsWith(Get(doc, "name", ""), ".xml")
            /\ Contains(Get(doc, "description", ""), "13F"))

doc_url(accession_num, cik, primary_doc) ==
    base_url_13f \o "/" \o ZeroPad(cik, 10) \o "/" \o RemoveHyphens(accession_num)
        \o "/" \o primary_doc

\* df with the columns filing_date and accession_number added
WithFilingColumns(df, file_date, accession_num) ==
    [k \in 1..Len(df) |->
        SetKey(SetKey(df[k], "filing_date", file_date),
               "accession_number", accession_num)]

\* the body of the for loop for one filing: [results, net]
FetchFilingBody(results, filing, cik, index_response, doc_response) ==
    LET source == Get(filing, "_source", <<>>)
    IN  IF "accession_number" \notin DOMAIN source
        \* None.replace raises AttributeError in get_filing_documents: continue
        THEN [results |-> results, net |-> <<>>]
        ELSE
        LET accession_num == source.accession_number
            file_date     == Get(source, "file_date", "")
            listing       == get_filing_documents(accession_num, cik, index_response)
            docs          == listing.docs
        IN  IF docs = <<>> THEN [results |-> results, net |-> listing.net]
            ELSE IF PrimaryItems(docs) = <<>>
            THEN [results |-> results, net |-> listing.net \o <<Sleep("0.1")>>]
            ELSE
            LET primary_doc == Head(PrimaryItems(docs)).name
                request     == <<GetUrl(doc_url(accession_num, cik, primary_doc))>>
                df          == parse_13f_xml(doc_response.body)
            IN  IF RequestFailed(doc_response)
                THEN [results |-> results, net |-> listing.net \o request]
                ELSE [results |-> IF df # <<>>
                                  THEN Append(results,
                                         WithFilingColumns(df, file_date, accession_num))
                                  ELSE results,
                      net     |-> listing.net \o request \o <<Sleep("0.1")>>]

\* fetch_13f_data up to the for loop
FetchCall ==
    /\ pc = "fetch_call"
    /\ LET search == search_company_filings(args.cik, args.search_response)
       IN  /\ net' = net \o search.net
           /\ IF search.hits = <<>>
              THEN ret' = <<>> /\ pc' = "fetch_done" /\ loc' = loc
              ELSE /\ loc' = [filings |-> search.hits, k |-> 1, results |-> <<>>]
                   /\ pc' = "fetch_loop"
                   /\ ret' = ret
    /\ UNCHANGED args

\* one iteration of the for loop
FetchFiling ==
    /\ pc = "fetch_loop"
    /\ loc.k <= Len(loc.filings)
    /\ LET step == FetchFilingBody(loc.results, loc.filings[loc.k], args.cik,
                                   args.index_responses[loc.k],
                                   args.doc_responses[loc.k])
       IN  /\ loc' = [loc EXCEPT !.results = step.results, !.k = @ + 1]
           /\ net' = net \o step.net
    /\ UNCHANGED <<pc, args, ret>>

\* return results
FetchReturn ==
    /\ pc = "fetch_loop"
    /\ loc.k > Len(loc.filings)
    /\ ret' = loc.results
    /\ pc' = "fetch_done"
    /\ UNCHANGED <<args, loc, net>>

(***************************************************************************)
(* Inputs of fetch_13f_data                                                *)
(***************************************************************************)
MaxHits == 2

FileDate == "2024-02-14"

Hit(k) == [_source |-> [accession_number |-> AccessionAt(k), file_date |-> FileDate]]
HitWithoutAccession == [_source |-> [file_date |-> FileDate]]

Unanswered == [status_code |-> 0, body |-> <<>>]
Missing == [status_code |-> 404, body |-> <<>>]

DirectoryOf(items) == OkResponse([directory |-> [item |-> items]])

IndexAnswers ==
    { Missing,
      OkResponse(<<>>),
      DirectoryOf(<<[name |-> "index.html", description |-> "13F-HR"],
                    [name |-> "primary_doc.xml", description |-> "cover page"]>>),
      DirectoryOf(<<[name |-> "index.html", description |-> "13F-HR"],
                    [name |-> "infotable.xml", description |-> "13F-HR table"]>>) }

DocumentAnswers ==
    { Unanswered,
      OkResponse(ParseError),
      OkResponse(ElemNoText("informationTable",
                    <<ElemNoText("infoTable", <<Leaf("value", "500")>>)>>)),
      OkResponse(ElemNoText("edgarSubmission",
                    <<ElemNoText("infoTable",
                        <<ElemNoText("holding", <<Leaf("value", "500")>>)>>)>>)) }

\* the hits of a search: each position with or without an accession number
HitLists ==
    UNION { { [k \in 1..n |-> IF k \in lacking THEN HitWithoutAccession ELSE Hit(k)] :
                lacking \in SUBSET (1..n) } : n \in 0..MaxHits }

FetchInputs ==
    { [cik |-> "102909", num_filings |-> MaxHits,
       search_response |-> OkResponse([hits |-> [hits |-> hits]]),
       index_responses |-> ix, doc_responses |-> dx] :
        hits \in HitLists,
        ix \in UNION { [1..n -> IndexAnswers] : n \in 0..MaxHits },
        dx \in UNION { [1..n -> DocumentAnswers] : n \in 0..MaxHits } }

InitFetch ==
    /\ pc = "fetch_call"
    /\ \/ /\ args \in FetchInputs
          /\ Len(args.index_responses) = Len(args.search_response.body.hits.hits)
          /\ Len(args.doc_responses) = Len(args.index_responses)
       \/ args \in { [cik |-> "102909", num_filings |-> 1, search_response |-> r,
                      index_responses |-> <<>>, doc_responses |-> <<>>] :
                        r \in {Unanswered, Missing, OkResponse(<<>>)} }
    /\ loc = None
    /\ ret = None
    /\ net = <<>>

NextFetch ==
    \/ FetchCall
    \/ FetchFiling
    \/ FetchReturn

SpecFetch == InitFetch /\ [][NextFetch]_vars

(***************************************************************************)
(* Form13DFetcher.search_major_institutional_filings: the targeted-CIK     *)
(* sweep.  The submissions request for a CIK is answered with              *)
(* args.responses[cik], or with 404 when the CIK is not in its domain.     *)
(***************************************************************************)
get_major_institutional_investors ==
    <<[name |-> "Berkshire Hathaway Inc", cik |-> "1067983"],
      [name |-> "Vanguard Group Inc", cik |-> "102909"],
      [name |-> "BlackRock Inc", cik |-> "1364742"],
      [name |-> "State Street Corp", cik |-> "93751"],
      [name |-> "Fidelity Management & Research Company LLC", cik |-> "315066"],
      [name |-> "Capital Research Global Investors", cik |-> "1067983"],
      [name |-> "JPMorgan Chase & Co", cik |-> "19617"],
      [name |-> "Wellington Management Group LLP", cik |-> "1633917"],
      [name |-> "T. Rowe Price Associates Inc", cik |-> "1113169"],
      [name |-> "Geode Capital Management LLC", cik |-> "1235067"],
      [name |-> "Northern Trust Corp", cik |-> "73015"],
      [name |-> "Bank of America Corp", cik |-> "70858"],
      [name |-> "Charles Schwab Corp", cik |-> "316709"],
      [name |-> "Invesco Ltd", cik |-> "914208"],
      [name |-> "Goldman Sachs Group Inc", cik |-> "886982"],
      [name |-> "Morgan Stanley", cik |-> "895421"],
      [name |-> "UBS Group AG", cik |-> "1114446"],
      [name |-> "Credit Suisse Group AG", cik |-> "1053092"],
      [name |-> "Citadel Advisors LLC", cik |-> "1423053"],
      [name |-> "Bridgewater Associates LP", cik |-> "1350694"]>>

\* the for loop of _search_by_filer_cik from position l.i on: the list returned,
\* or the exception raised
RECURSIVE FilerLoop(_, _, _, _, _)
FilerLoop(l, filer_name, start_date, end_date, max_results) ==
    LET next == [l EXCEPT !.i = @ + 1]
    IN  IF l.i >= Len(l.forms) THEN [raised |-> "", filings |-> l.filings]
        ELSE IF l.forms[l.i + 1] \notin Forms13D
        THEN FilerLoop(next, filer_name, start_date, end_date, max_results)
        ELSE IF l.i >= Len(l.filing_dates)
        THEN [raised |-> "IndexError", filings |-> <<>>]
        ELSE IF OutOfRange(l.filing_dates[l.i + 1], start_date, end_date)
        THEN FilerLoop(next, filer_name, start_date, end_date, max_results)
        ELSE IF l.i >= Len(l.accession_numbers)
        THEN [raised |-> "IndexError", filings |-> <<>>]
        ELSE LET filing_info ==
                    [form             |-> l.forms[l.i + 1],
                     filing_date      |-> l.filing_dates[l.i + 1],
                     accession_number |-> l.accession_numbers[l.i + 1],
                     filer_cik        |-> l.cik,
                     filer_name       |-> filer_name,
                     filer_type       |-> "Institutional",
                     primary_document |-> IF l.i < Len(l.primary_documents)
                                          THEN l.primary_documents[l.i + 1] ELSE ""]
                 filings == Append(l.filings, filing_info)
             IN  IF Len(filings) >= max_results
                 THEN [raised |-> "", filings |-> filings]
                 ELSE FilerLoop([next EXCEPT !.filings = filings],
                                filer_name, start_date, end_date, max_results)

\* one call of _search_by_filer_cik: [raised, filings, net]
_search_by_filer_cik(filer_cik, filer_name, start_date, end_date, max_results, response) ==
    LET calls == <<Sleep("0.1"), GetUrl(SubmissionsUrl(filer_cik))>>
        loop  == FilerLoop(LoopLocals(response.body, filer_cik), filer_name,
                           start_date, end_date, max_results)
    IN  IF RequestFailed(response)
        THEN [raised |-> "", filings |-> <<>>, net |-> calls]
        ELSE [raised |-> loop.raised, filings |-> loop.filings, net |-> calls]

\* search_major_institutional_filings up to the for loop
MajorCall ==
    /\ pc = "major_call"
    /\ loc' = [all_filings |-> <<>>, k |-> 1,
               major_investors |-> get_major_institutional_investors]
    /\ pc' = "major_loop"
    /\ UNCHANGED <<args, ret, net>>

\* one iteration of the for loop over the catalog
MajorInvestor ==
    /\ pc = "major_loop"
    /\ loc.k <= Len(loc.major_investors)
    /\ LET investor == loc.major_investors[loc.k]
           call == _search_by_filer_cik(investor.cik, investor.name,
                        args.start_date, args.end_date,
                        args.max_results_per_investor,
                        Get(args.responses, investor.cik, Missing))
       IN  IF call.raised # ""
           THEN /\ net' = net \o call.net
                /\ loc' = [loc EXCEPT !.k = @ + 1]
           ELSE /\ net' = net \o call.net \o <<Sleep("0.2")>>
                /\ loc' = [loc EXCEPT !.all_filings = @ \o call.filings, !.k = @ + 1]
    /\ UNCHANGED <<pc, args, ret>>

\* return all_filings
MajorReturn ==
    /\ pc = "major_loop"
    /\ loc.k > Len(loc.major_investors)
    /\ ret' = loc.all_filings
    /\ pc' = "major_done"
    /\ UNCHANGED <<args, loc, net>>

(***************************************************************************)
(* Inputs of the targeted-CIK sweep                                        *)
(***************************************************************************)
MaxPerInvestor == 2

\* the CIKs whose answer varies: the first two entities (the first CIK is also
\* that of the sixth entity) and the last one
AnsweredCiks == {"1067983", "102909", "1350694"}

MajorAnswers ==
    { Unanswered,
      OkResponse(ShortAccessions),
      OkResponse(SubmissionsOf(<<<<"13D", EarlyDate>>, <<"13D", LateDate>>>>)),
      OkResponse(SubmissionsOf(<<<<"13D/A", LateDate>>, <<"10-K", LateDate>>,
                                 <<"13D", LateDate>>, <<"13D", LateDate>>>>)) }

InitMajor ==
    /\ pc = "major_call"
    /\ args \in [start_date : {"", LateDate}, end_date : {""},
                 max_results_per_investor : 0..MaxPerInvestor,
                 responses : [AnsweredCiks -> MajorAnswers]]
    /\ loc = None
    /\ ret = None
    /\ net = <<>>

NextMajor ==
    \/ MajorCall
    \/ MajorInvestor
    \/ MajorReturn

SpecMajor == InitMajor /\ [][NextMajor]_vars

(***************************************************************************)
(* Claims about the targeted-CIK sweep                                     *)
(***************************************************************************)
Catalog == get_major_institutional_investors

\* the records of the result that carry the name of entity k
Contribution(k) == SelectSeq(ret, LAMBDA r : r.filer_name = Catalog[k].name)

RECURSIVE Contributions(_)
Contributions(k) ==
    IF k > Len(Catalog) THEN <<>> ELSE Contribution(k) \o Contributions(k + 1)

\* the request for entity k fails, or its answer makes the extractor raise
EntityFails(k) ==
    LET response == Get(args.responses, Catalog[k].cik, Missing)
    IN  \/ RequestFailed(response)
        \/ _search_by_filer_cik(Catalog[k].cik, Catalog[k].name, args.start_date,
                                args.end_date, args.max_results_per_investor,
                                response).raised # ""

\* every (name, CIK) pair of the catalog is requested once, in catalog order
C14_VisitsAll ==
    pc = "major_done" =>
        Requests = [k \in 1..Len(Catalog) |-> GetUrl(SubmissionsUrl(Catalog[k].cik))]

\* the result is the contributions in catalog order, all Institutional, none
\* from an entity that failed
C14_Isolation ==
    pc = "major_done" =>
        /\ ret = Contributions(1)
        /\ \A j \in 1..Len(ret) : ret[j].filer_type = "Institutional"
        /\ \A k \in 1..Len(Catalog) : EntityFails(k) => Contribution(k) = <<>>

\* each entity contributes at most max_results_per_investor records
C14_PerInvestorCap ==
    pc = "major_done" =>
        \A k \in 1..Len(Catalog) :
            Len(Contribution(k)) <= args.max_results_per_investor

\* C14: the targeted-CIK sweep requests every (name, CIK) pair of the catalog
\* once and in catalog order whatever the earlier answers were; an entity that
\* fails contributes no record; every record has filer_type 'Institutional';
\* each entity contributes at most max_results_per_investor records, and the
\* contributions are appended in catalog order.
C14_TargetedSweep == C14_VisitsAll /\ C14_Isolation /\ C14_PerInvestorCap

(***************************************************************************)
(* Claims about the errors and the records of the submissions extractors   *)
(***************************************************************************)
\* C13: whatever the answer to the submissions request, search_filings returns
\* a list: no run of it ends with an exception raised to its caller.
C13_NoErrorIsFatal == pc # "search_filings_raised"

\* C15: every record returned by the submissions extractors carries an
\* accession_number that is empty or of the shape \d{10}-\d{2}-\d{6}.
C15_AccessionShape ==
    SearchDone =>
        \A j \in 1..Len(ret) :
            ret[j].accession_number = "" \/ AccessionShape(ret[j].accession_number)

(***************************************************************************)
(* Claims about the delay before requests                                  *)
(***************************************************************************)
\* C12: every request is immediately preceded by a sleep: the first event of a
\* run is not a request, and no request directly follows another request.
C12_SleepBeforeEveryRequest ==
    \A i \in 1..Len(net) :
        IsRequest(net[i]) => i > 1 /\ IsSleep(net[i - 1])

====
